---- MODULE Spec2Model ----
(***************************************************************************)
(* Smart Grading and Feedback System: the grading engine of                *)
(* DatabaseManager (database.py) and the tables it writes.                 *)
(*                                                                         *)
(* Strings are sequences of one-character strings, so that upper(),        *)
(* strip() and split() are computed character by character.  Scores are    *)
(* kept in tenths of a point (points * 0.8 is points * 8 tenths), which    *)
(* represents every product the grader forms exactly.                      *)
(***************************************************************************)
EXTENDS Integers, Sequences, FiniteSets, TLC

VARIABLES
    users,            \* table users: row i has id i
    assignments,      \* table assignments: row i has id i
    questions,        \* table questions: row i has id i
    submissions,      \* table submissions: a set of rows
    answers,          \* table answers: row i has id i
    seq_submissions,  \* sqlite_sequence entry of submissions (AUTOINCREMENT)
    last,             \* the last DatabaseManager call and what it returned
    calls,            \* history: submission id -> the submission_data that made it
    g_question,       \* _grade_answer on its own: the question row
    g_answer,         \* _grade_answer on its own: the student answer
    g_result,         \* _grade_answer on its own: the returned pair, or NoResult
    f_args,           \* a statistics or report function on its own: its arguments
    f_result,         \* a statistics or report function on its own: NotCalled, or
                      \* what it returned or printed
    frame             \* the interactive procedure that is running: its name,
                      \* its position and its local variables

vars == <<users, assignments, questions, submissions, answers, seq_submissions, last,
          calls, g_question, g_answer, g_result, f_args, f_result, frame>>

dbvars == <<users, assignments, questions, submissions, answers, seq_submissions, last,
            calls>>
gvars == <<g_question, g_answer, g_result>>
fvars == <<f_args, f_result>>

----------------------------------------------------------------------------
(* Bounds *)

MaxWords == 11
MaxPoints == 2
MaxAssignments == 2
MaxSubmissions == 2
MaxScoreSum == 4
Near == 2
MaxClass == 3
MaxShown == 3
MaxHistory == 4
MaxStudents == 2

----------------------------------------------------------------------------
(* Python str operations *)

Whitespace == {" ", "\t", "\n"}

LowerCase == <<"a","b","c","d","e","f","g","h","i","j","k","l","m",
               "n","o","p","q","r","s","t","u","v","w","x","y","z">>
UpperCase == <<"A","B","C","D","E","F","G","H","I","J","K","L","M",
               "N","O","P","Q","R","S","T","U","V","W","X","Y","Z">>

\* str.upper() of one character
UpperChar(c) ==
    IF \E i \in DOMAIN LowerCase : LowerCase[i] = c
    THEN UpperCase[CHOOSE i \in DOMAIN LowerCase : LowerCase[i] = c]
    ELSE c

\* str.upper()
Upper(s) == [i \in DOMAIN s |-> UpperChar(s[i])]

RECURSIVE LStrip(_)
LStrip(s) ==
    IF s = <<>> THEN <<>>
    ELSE IF Head(s) \in Whitespace THEN LStrip(Tail(s))
    ELSE s

RECURSIVE RStrip(_)
RStrip(s) ==
    IF s = <<>> THEN <<>>
    ELSE IF s[Len(s)] \in Whitespace THEN RStrip(SubSeq(s, 1, Len(s) - 1))
    ELSE s

\* str.strip()
Strip(s) == RStrip(LStrip(s))

\* the first word of a string that starts with a non-whitespace character
RECURSIVE TakeWord(_)
TakeWord(s) ==
    IF s = <<>> \/ Head(s) \in Whitespace THEN <<>>
    ELSE <<Head(s)>> \o TakeWord(Tail(s))

\* str.split(): the maximal runs of non-whitespace characters
RECURSIVE Split(_)
Split(s) ==
    LET t == LStrip(s) IN
    IF t = <<>> THEN <<>>
    ELSE LET w == TakeWord(t) IN
         <<w>> \o Split(SubSeq(t, Len(w) + 1, Len(t)))

----------------------------------------------------------------------------
(* DatabaseManager._grade_answer *)

\* a NULL column value (Python None); no string has a multi-character element
NULL == <<"None">>

NoResult == [raised |-> FALSE, score |-> -1, feedback |-> <<>>]

\* the comparison of line 495, with the operands' order of operations swapped
\* (strip only the student's side)
ObjectiveMatchNoStripCorrect(question, student_answer) ==
    Strip(Upper(student_answer)) = Upper(question.correct_answer)

\* the comparison of line 495 without upper(): case-sensitive
ObjectiveMatchCaseSensitive(question, student_answer) ==
    Strip(student_answer) = Strip(question.correct_answer)

\* line 495: student_answer.upper().strip() == correct_answer.upper().strip()
ObjectiveMatch(question, student_answer) ==
    Strip(Upper(student_answer)) = Strip(Upper(question.correct_answer))

\* lines 505-513 with the 5-word band compared with > instead of >=
SubjectiveTenthsStrict(word_count) ==
    IF word_count >= 10 THEN 8
    ELSE IF word_count > 5 THEN 6
    ELSE 3

\* lines 505-513 with 0.8 written as 8: eight times the points
SubjectiveTenthsTimesEight(word_count) ==
    IF word_count >= 10 THEN 80
    ELSE IF word_count >= 5 THEN 6
    ELSE 3

\* lines 505-513 with the 0.8 and the 0.6 of the two upper bands exchanged
SubjectiveTenthsBandsSwapped(word_count) ==
    IF word_count >= 10 THEN 6
    ELSE IF word_count >= 5 THEN 8
    ELSE 3

\* lines 505-513: the fraction of the points, in tenths, for a non-empty answer
SubjectiveTenths(word_count) ==
    IF word_count >= 10 THEN 8
    ELSE IF word_count >= 5 THEN 6
    ELSE 3

SubjectiveFeedback(word_count) ==
    IF word_count >= 10 THEN "Good response! Your answer shows understanding."
    ELSE IF word_count >= 5 THEN "Adequate response. Consider providing more detail."
    ELSE "Brief response. Please elaborate for full credit."

\* _grade_answer(question, student_answer): (score, feedback), score in tenths.
\* None.upper() on a NULL correct_answer raises AttributeError.
_grade_answer(question, student_answer) ==
    IF question.question_type = "objective"
    THEN IF question.correct_answer = NULL
         THEN [raised |-> TRUE, score |-> 0, feedback |-> <<>>]
         ELSE IF ObjectiveMatch(question, student_answer)
         THEN [raised |-> FALSE, score |-> question.points * 10,
               feedback |-> <<"Correct! Well done.">>]
         ELSE [raised |-> FALSE, score |-> 0,
               feedback |-> <<"Incorrect. The correct answer is ",
                              question.correct_answer, ".">>]
    ELSE IF Strip(student_answer) # <<>>
         THEN LET word_count == Len(Split(student_answer)) IN
              [raised |-> FALSE,
               score |-> question.points * SubjectiveTenths(word_count),
               feedback |-> <<SubjectiveFeedback(word_count)>>]
         ELSE [raised |-> FALSE, score |-> 0, feedback |-> <<"No answer provided.">>]

----------------------------------------------------------------------------
(* Inputs of _grade_answer on its own *)

Pads == {<<>>, <<" ">>, <<"\n", "\t">>}
Separators == {<<" ">>, <<" ", " ">>, <<"\n">>}
Words == {<<"a">>, <<"B">>}

\* k copies of word w joined by sep
RECURSIVE Repeat(_, _, _)
Repeat(w, sep, k) ==
    IF k = 0 THEN <<>>
    ELSE IF k = 1 THEN w
    ELSE w \o sep \o Repeat(w, sep, k - 1)

GradeAnswers ==
    { lead \o Repeat(w, sep, k) \o trail :
        lead \in Pads, trail \in Pads, w \in Words, sep \in Separators,
        k \in 0..MaxWords }

CorrectAnswers ==
    { <<"A">>, <<"a", " ">>, <<" ", "b">>, <<"B", " ", "b">>, <<>>, <<" ">>, NULL }

GradeQuestions ==
    [question_type : {"objective"}, correct_answer : CorrectAnswers,
     points : 1..MaxPoints]
    \cup
    [question_type : {"subjective"}, correct_answer : {<<>>},
     points : 1..MaxPoints]

----------------------------------------------------------------------------
(* Specification of _grade_answer on its own *)

\* no interactive procedure has been entered
NoFrame == [name |-> "none"]

InitNoProcedure == frame = NoFrame

\* lines 131-145: the accounts that initialize_database creates
DefaultTeachers ==
    << [ id |-> 1, name |-> <<"M","r","."," ","K","e","v","i","n">>,
         role |-> "teacher", username |-> <<"K","e","v","i","n">>,
         password |-> <<"p","a","s","s","w","o","r","d","1","2","3">>,
         login_code |-> NULL, created_by |-> NULL, is_active |-> 1 ],
       [ id |-> 2, name |-> <<"M","r","s","."," ","P","e","a","c","e">>,
         role |-> "teacher", username |-> <<"P","e","a","c","e">>,
         password |-> <<"p","a","s","s","w","o","r","d","1","2","3">>,
         login_code |-> NULL, created_by |-> NULL, is_active |-> 1 ] >>

InitDB ==
    /\ users = DefaultTeachers
    /\ assignments = <<>>
    /\ questions = <<>>
    /\ submissions = {}
    /\ answers = <<>>
    /\ seq_submissions = 0
    /\ last = [op |-> "none", args |-> <<>>, ret |-> FALSE]
    /\ calls = <<>>

NotCalled == [called |-> FALSE]

\* no statistics or report function is under study
InitNoFunction ==
    /\ f_args = <<>>
    /\ f_result = NotCalled

\* _grade_answer is not under study on its own
InitNoGrade ==
    /\ g_question = [question_type |-> "subjective", correct_answer |-> <<>>,
                     points |-> 1]
    /\ g_answer = <<>>
    /\ g_result = NoResult

InitGrade ==
    /\ InitDB
    /\ InitNoProcedure
    /\ InitNoFunction
    /\ g_question \in GradeQuestions
    /\ g_answer \in GradeAnswers
    /\ g_result = NoResult

GradeAnswer ==
    /\ g_result = NoResult
    /\ g_result' = _grade_answer(g_question, g_answer)
    /\ UNCHANGED <<g_question, g_answer, dbvars, fvars, frame>>

NextGrade == GradeAnswer

SpecGrade == InitGrade /\ [][NextGrade]_vars

----------------------------------------------------------------------------
(* Python helpers used by the storage operations *)

Digits == <<"0", "1", "2", "3", "4", "5", "6", "7", "8", "9">>

\* str(i) for a list index
RECURSIVE Str(_)
Str(i) ==
    IF i < 10 THEN Digits[i + 1]
    ELSE Str(i \div 10) \o Digits[(i % 10) + 1]

\* dict.get(key, default)
DictGet(d, key, default) == IF key \in DOMAIN d THEN d[key] ELSE default

\* sum(row[field] for row in rows)
RECURSIVE SumOf(_, _)
SumOf(rows, field) ==
    IF rows = <<>> THEN 0
    ELSE Head(rows)[field] + SumOf(Tail(rows), field)

----------------------------------------------------------------------------
(* DatabaseManager.get_assignment_questions *)

\* ORDER BY question_order, id
QuestionBefore(p, q) ==
    \/ p.question_order < q.question_order
    \/ (p.question_order = q.question_order /\ p.id < q.id)

RECURSIVE OrderRows(_)
OrderRows(rows) ==
    IF rows = {} THEN <<>>
    ELSE LET first == CHOOSE p \in rows :
                          \A q \in rows \ {p} : QuestionBefore(p, q)
         IN <<first>> \o OrderRows(rows \ {first})

\* SELECT * FROM questions WHERE assignment_id = ? ORDER BY question_order, id
get_assignment_questions(assignment_id) ==
    OrderRows({ questions[i] : i \in
                  { j \in DOMAIN questions :
                      questions[j].assignment_id = assignment_id } })

----------------------------------------------------------------------------
(* DatabaseManager.save_assignment *)

\* the question_order given to the question enumerated at 0-based index i
QuestionOrderOf(i) == i + 1

\* the rows inserted into questions for the new assignment
NewQuestionRows(assignment_id, qs) ==
    [ k \in 1..Len(qs) |->
        [ id             |-> Len(questions) + k,
          assignment_id  |-> assignment_id,
          question_text  |-> qs[k].text,
          question_type  |-> qs[k].type,
          correct_answer |-> DictGet(qs[k], "correct_answer", <<>>),
          points         |-> qs[k].points,
          question_order |-> QuestionOrderOf(k - 1) ] ]

\* total_points = sum(q['points'] for q in assignment_data['questions'])
TotalPoints(qs) == SumOf(qs, "points")

\* the statement of lines 326-333 as an upsert that also writes the new
\* total_points into the teacher's earlier assignments
AssignmentsAfterUpsert(row) ==
    [ i \in 1..(Len(assignments) + 1) |->
        IF i = Len(assignments) + 1 THEN row
        ELSE IF assignments[i].teacher_id = row.teacher_id
             THEN [assignments[i] EXCEPT !.total_points = row.total_points]
             ELSE assignments[i] ]

\* lines 326-333: INSERT INTO assignments adds one row
AssignmentsAfterInsert(row) == Append(assignments, row)

SaveAssignment(assignment_data) ==
    /\ Len(assignments) < MaxAssignments
    /\ LET assignment_id == Len(assignments) + 1
           qs == assignment_data.questions
       IN /\ assignments' = AssignmentsAfterInsert(
                 [ id           |-> assignment_id,
                   teacher_id   |-> assignment_data.teacher_id,
                   total_points |-> TotalPoints(qs),
                   is_active    |-> 1 ])
          /\ questions' = questions \o NewQuestionRows(assignment_id, qs)
          /\ last' = [op |-> "save_assignment",
                     args |-> [teacher_id |-> assignment_data.teacher_id],
                     ret |-> assignment_id]
    /\ UNCHANGED <<users, submissions, answers, seq_submissions, calls, gvars,
                   fvars, frame>>

----------------------------------------------------------------------------
(* DatabaseManager.save_submission *)

\* the lookup of line 463 keyed by the question's id instead of its position
StudentAnswerByQuestionId(submission_data, i, question) ==
    DictGet(submission_data.answers, Str(question.id), <<>>)

\* the student's answer to the question enumerated at 0-based index i
StudentAnswerOf(submission_data, i, question) ==
    DictGet(submission_data.answers, Str(i), <<>>)

\* the row of the pair (assignment_id, student_id), if any
ExistingSubmissions(assignment_id, student_id) ==
    { s \in submissions :
        s.assignment_id = assignment_id /\ s.student_id = student_id }

\* the insert of lines 444-449 without the COALESCE subquery: the column default
SubmissionCountDefault(existing) == 1

\* COALESCE((SELECT submission_count + 1 ... ), 1)
NextSubmissionCount(existing) ==
    IF existing = {} THEN 1
    ELSE (CHOOSE s \in existing : TRUE).submission_count + 1

\* the id given to the inserted row: AUTOINCREMENT never reuses an id
NewSubmissionId == seq_submissions + 1

\* a plain INSERT that keeps the row of the pair
SubmissionsAfterInsert(existing, row) == submissions \cup {row}

\* INSERT OR REPLACE: the row that holds the UNIQUE pair is deleted first
SubmissionsAfterReplace(existing, row) == (submissions \ existing) \cup {row}

\* max_score taken as the number of questions
MaxScoreCountsQuestions(qs) == Len(qs)

\* max_score taken from the first question alone
MaxScoreOfFirstQuestion(qs) == IF qs = <<>> THEN 0 ELSE qs[1].points

\* max_score = sum(q['points'] for q in questions)
MaxScore(qs) == SumOf(qs, "points")

\* the guard of line 436 written as a test for None
NoQuestionsIsNone(qs) == qs = NULL

\* line 436: not questions, true of the empty list
NoQuestions(qs) == qs = <<>>

\* the placeholder 0 of line 453 left in place (the UPDATE of 474-478 missing)
TotalScorePlaceholder(graded) == 0

\* total_score after the loop: 0 + score_1 + ... + score_n
TotalScore(graded) == SumOf(graded, "score")

\* the caller's frame is left to the caller
SaveSubmission(submission_data) ==
    LET qs == get_assignment_questions(submission_data.assignment_id)
        student_answers ==
            [ k \in 1..Len(qs) |-> StudentAnswerOf(submission_data, k - 1, qs[k]) ]
        graded ==
            [ k \in 1..Len(qs) |-> _grade_answer(qs[k], student_answers[k]) ]
        existing == ExistingSubmissions(submission_data.assignment_id,
                                        submission_data.student_id)
        submission_id == NewSubmissionId
    IN
    /\ seq_submissions < MaxSubmissions
    /\ IF NoQuestions(qs)
       THEN \* if not questions: return False
            /\ last' = [op |-> "save_submission",
                        args |-> [assignment_id |-> submission_data.assignment_id],
                        ret |-> FALSE]
            /\ UNCHANGED <<submissions, answers, seq_submissions, calls>>
       ELSE IF \E k \in 1..Len(qs) : graded[k].raised
       THEN \* AttributeError leaves the function; close() drops the transaction
            /\ last' = [op |-> "save_submission",
                        args |-> [assignment_id |-> submission_data.assignment_id],
                        ret |-> "AttributeError"]
            /\ UNCHANGED <<submissions, answers, seq_submissions, calls>>
       ELSE /\ submissions' = SubmissionsAfterReplace(existing,
                 [ id               |-> submission_id,
                   assignment_id    |-> submission_data.assignment_id,
                   student_id       |-> submission_data.student_id,
                   total_score      |-> TotalScore(graded),
                   max_score        |-> MaxScore(qs),
                   submission_count |-> NextSubmissionCount(existing) ])
            /\ seq_submissions' = submission_id
            /\ answers' = answers \o
                 [ k \in 1..Len(qs) |->
                     [ id             |-> Len(answers) + k,
                       submission_id  |-> submission_id,
                       question_id    |-> qs[k].id,
                       student_answer |-> student_answers[k],
                       score          |-> graded[k].score,
                       feedback       |-> graded[k].feedback ] ]
            /\ calls' = Append(calls, submission_data)
            /\ last' = [op |-> "save_submission",
                        args |-> [assignment_id |-> submission_data.assignment_id],
                        ret |-> TRUE]
    /\ UNCHANGED <<users, assignments, questions, gvars, fvars>>

----------------------------------------------------------------------------
(* Inputs of the storage operations *)

ScenarioEssay ==
    <<"t","h","i","s"," ","i","s"," ","a"," ","n","i","n","e"," ",
      "w","o","r","d"," ","e","s","s","a","y"," ","a","b","o","u","t"," ",
      "t","h","e"," ","t","o","p","i","c"," ","t","o","d","a","y">>

\* the assignment of the scenario: two objective questions and an essay
ScenarioQuestions ==
    << [text |-> "first", type |-> "objective", points |-> 5,
        correct_answer |-> <<"A">>],
       [text |-> "second", type |-> "objective", points |-> 5,
        correct_answer |-> <<"B">>],
       [text |-> "essay", type |-> "subjective", points |-> 10] >>

ScenarioAnswers == ("0" :> <<"a">>) @@ ("1" :> <<"C">>) @@ ("2" :> ScenarioEssay)

\* assignment_data['questions'] as Teacher.create_assignment builds it: an
\* objective question carries its correct_answer, a subjective one has no such
\* key; no caller passes None, so no stored correct_answer is NULL here
AssignmentInputs ==
    { ScenarioQuestions,
      << [text |-> "short", type |-> "subjective", points |-> 3],
         [text |-> "choice", type |-> "objective", points |-> 2,
          correct_answer |-> <<" ", "b">>] >>,
      << >> }

AnswerDicts ==
    { ScenarioAnswers,
      ("1" :> <<"B", " ">>) @@ ("2" :> <<"a">>) @@ ("3" :> <<"A">>) }

TeacherIds == {1}
StudentIds == {3, 4}

----------------------------------------------------------------------------
(* Specification of the storage operations *)

Init ==
    /\ InitDB
    /\ InitNoProcedure
    /\ InitNoGrade
    /\ InitNoFunction

Next ==
    \/ \E qs \in AssignmentInputs, t \in TeacherIds :
          SaveAssignment([questions |-> qs, teacher_id |-> t])
    \/ \E a \in 1..MaxAssignments, s \in StudentIds, d \in AnswerDicts :
          /\ SaveSubmission([assignment_id |-> a, student_id |-> s, answers |-> d])
          /\ UNCHANGED frame

Spec == Init /\ [][Next]_vars

----------------------------------------------------------------------------
(* Python numbers: the quotients the statistics form, as exact fractions *)

RECURSIVE GCD(_, _)
GCD(a, b) == IF b = 0 THEN a ELSE GCD(b, a % b)

Abs(x) == IF x < 0 THEN -x ELSE x

\* the fraction n / d (d > 0) in lowest terms
Rat(n, d) ==
    LET g == GCD(Abs(n), d) IN [n |-> n \div g, d |-> d \div g]

RatAdd(a, b) == Rat(a.n * b.d + b.n * a.d, a.d * b.d)
RatSub(a, b) == Rat(a.n * b.d - b.n * a.d, a.d * b.d)
RatGE(a, b) == a.n * b.d >= b.n * a.d
RatGT(a, b) == a.n * b.d > b.n * a.d
RatLT(a, b) == a.n * b.d < b.n * a.d

\* (total_score / max_score) * 100 for max_score > 0, total_score in tenths
PercentageOf(total_score, max_score) == Rat(total_score * 100, max_score * 10)

----------------------------------------------------------------------------
(* PerformanceCalculator.calculate_percentage *)

\* lines 179-181 without the guard of line 179: ZeroDivisionError at 0
calculate_percentage_unguarded(score, max_score) ==
    IF max_score = 0
    THEN [called |-> TRUE, raised |-> TRUE, value |-> Rat(0, 1)]
    ELSE [called |-> TRUE, raised |-> FALSE, value |-> PercentageOf(score, max_score)]

\* calculate_percentage(score, max_score), score in tenths of a point
calculate_percentage(score, max_score) ==
    IF max_score = 0
    THEN [called |-> TRUE, raised |-> FALSE, value |-> Rat(0, 1)]
    ELSE [called |-> TRUE, raised |-> FALSE, value |-> PercentageOf(score, max_score)]

InitPercentage ==
    /\ InitDB
    /\ InitNoProcedure
    /\ InitNoGrade
    /\ f_args \in [score : 0..(MaxScoreSum * 10), max_score : 0..MaxScoreSum]
    /\ f_result = NotCalled

CalculatePercentage ==
    /\ f_result = NotCalled
    /\ f_result' = calculate_percentage(f_args.score, f_args.max_score)
    /\ UNCHANGED <<f_args, dbvars, gvars, frame>>

NextPercentage == CalculatePercentage

SpecPercentage == InitPercentage /\ [][NextPercentage]_vars

----------------------------------------------------------------------------
(* PerformanceCalculator.get_grade_letter and get_grade_description *)

\* lines 186-195 with the first comparison strict: percentage > 90
get_grade_letter_strict(percentage) ==
    IF RatGT(percentage, Rat(90, 1)) THEN "A"
    ELSE IF RatGE(percentage, Rat(80, 1)) THEN "B"
    ELSE IF RatGE(percentage, Rat(70, 1)) THEN "C"
    ELSE IF RatGE(percentage, Rat(60, 1)) THEN "D"
    ELSE "F"

get_grade_letter(percentage) ==
    IF RatGE(percentage, Rat(90, 1)) THEN "A"
    ELSE IF RatGE(percentage, Rat(80, 1)) THEN "B"
    ELSE IF RatGE(percentage, Rat(70, 1)) THEN "C"
    ELSE IF RatGE(percentage, Rat(60, 1)) THEN "D"
    ELSE "F"

\* lines 200-209 with the last comparison strict: percentage > 60
get_grade_description_strict(percentage) ==
    IF RatGE(percentage, Rat(90, 1)) THEN "Excellent"
    ELSE IF RatGE(percentage, Rat(80, 1)) THEN "Very Good"
    ELSE IF RatGE(percentage, Rat(70, 1)) THEN "Good"
    ELSE IF RatGT(percentage, Rat(60, 1)) THEN "Satisfactory"
    ELSE "Needs Improvement"

get_grade_description(percentage) ==
    IF RatGE(percentage, Rat(90, 1)) THEN "Excellent"
    ELSE IF RatGE(percentage, Rat(80, 1)) THEN "Very Good"
    ELSE IF RatGE(percentage, Rat(70, 1)) THEN "Good"
    ELSE IF RatGE(percentage, Rat(60, 1)) THEN "Satisfactory"
    ELSE "Needs Improvement"

\* percentages: the whole ones, and those within Near thousandths of a threshold
LetterPercentages ==
    { Rat(k, 1) : k \in 0..100 }
    \cup { Rat(t * 1000 + e, 1000) : t \in {60, 70, 80, 90}, e \in (-Near)..Near }

InitLetter ==
    /\ InitDB
    /\ InitNoProcedure
    /\ InitNoGrade
    /\ f_args \in [percentage : LetterPercentages]
    /\ f_result = NotCalled

GetGrade ==
    /\ f_result = NotCalled
    /\ f_result' = [called |-> TRUE,
                    letter |-> get_grade_letter(f_args.percentage),
                    description |-> get_grade_description(f_args.percentage)]
    /\ UNCHANGED <<f_args, dbvars, gvars, frame>>

NextLetter == GetGrade

SpecLetter == InitLetter /\ [][NextLetter]_vars

----------------------------------------------------------------------------
(* PerformanceCalculator.calculate_class_statistics *)

\* lines 223-227: the percentages of the submissions with max_score > 0
RECURSIVE ScoresOf(_)
ScoresOf(subs) ==
    IF subs = <<>> THEN <<>>
    ELSE IF Head(subs).max_score > 0
         THEN <<PercentageOf(Head(subs).total_score, Head(subs).max_score)>>
                  \o ScoresOf(Tail(subs))
         ELSE ScoresOf(Tail(subs))

\* sum(scores)
RECURSIVE RatSum(_)
RatSum(scores) ==
    IF scores = <<>> THEN Rat(0, 1) ELSE RatAdd(Head(scores), RatSum(Tail(scores)))

\* max(scores): the first of the largest
RECURSIVE RatMax(_)
RatMax(scores) ==
    IF Len(scores) = 1 THEN scores[1]
    ELSE LET m == RatMax(Tail(scores)) IN
         IF RatGE(Head(scores), m) THEN Head(scores) ELSE m

\* min(scores)
RECURSIVE RatMin(_)
RatMin(scores) ==
    IF Len(scores) = 1 THEN scores[1]
    ELSE LET m == RatMin(Tail(scores)) IN
         IF RatGE(m, Head(scores)) THEN Head(scores) ELSE m

\* line 238: [s for s in scores if s >= 60]
PassingScores(scores) == SelectSeq(scores, LAMBDA x : RatGE(x, Rat(60, 1)))

\* 'total_submissions' counted over the filtered list: len(scores)
TotalSubmissionsQualifying(subs, scores) == Len(scores)

\* lines 231, 241: 'total_submissions': len(submissions)
TotalSubmissions(subs, scores) == Len(subs)

\* 'average_score' weighted by points: total points earned over total possible
AverageScoreWeighted(subs, scores) ==
    PercentageOf(SumOf(subs, "total_score"), SumOf(subs, "max_score"))

\* line 242: 'average_score': sum(scores) / len(scores)
AverageScore(subs, scores) ==
    LET t == RatSum(scores) IN Rat(t.n, t.d * Len(scores))

calculate_class_statistics(subs) ==
    LET scores == ScoresOf(subs) IN
    IF subs = <<>>
    THEN [called |-> TRUE, total_submissions |-> 0,
          average_score |-> Rat(0, 1), highest_score |-> Rat(0, 1),
          lowest_score |-> Rat(0, 1), pass_rate |-> Rat(0, 1)]
    ELSE IF scores = <<>>
    THEN [called |-> TRUE,
          total_submissions |-> TotalSubmissions(subs, scores),
          average_score |-> Rat(0, 1), highest_score |-> Rat(0, 1),
          lowest_score |-> Rat(0, 1), pass_rate |-> Rat(0, 1)]
    ELSE [called |-> TRUE,
          total_submissions |-> TotalSubmissions(subs, scores),
          average_score |-> AverageScore(subs, scores),
          highest_score |-> RatMax(scores),
          lowest_score |-> RatMin(scores),
          pass_rate |-> Rat(Len(PassingScores(scores)) * 100, Len(scores))]

\* submission records as the storage returns them: total_score in tenths
ClassSubmissions ==
    { [total_score |-> 50, max_score |-> 10], [total_score |-> 59, max_score |-> 10],
      [total_score |-> 60, max_score |-> 10], [total_score |-> 70, max_score |-> 10],
      [total_score |-> 90, max_score |-> 10], [total_score |-> 180, max_score |-> 20],
      [total_score |-> 0, max_score |-> 0] }

RECURSIVE SeqsUpTo(_, _)
SeqsUpTo(S, n) ==
    IF n = 0 THEN {<<>>}
    ELSE LET shorter == SeqsUpTo(S, n - 1) IN
         shorter \cup { Append(q, x) : q \in shorter, x \in S }

InitClass ==
    /\ InitDB
    /\ InitNoProcedure
    /\ InitNoGrade
    /\ f_args \in [submissions : SeqsUpTo(ClassSubmissions, MaxClass)]
    /\ f_result = NotCalled

CalculateClassStatistics ==
    /\ f_result = NotCalled
    /\ f_result' = calculate_class_statistics(f_args.submissions)
    /\ UNCHANGED <<f_args, dbvars, gvars, frame>>

NextClass == CalculateClassStatistics

SpecClass == InitClass /\ [][NextClass]_vars

----------------------------------------------------------------------------
(* Teacher.view_assignment_statistics: the row of one assignment *)

\* the students' submissions gathered over every user, deactivated or not
AssignmentSubmissionsOfAllUsers(assignment, all_users) ==
    LET Gather[k \in 0..Len(all_users)] ==
            IF k = 0 THEN <<>>
            ELSE Gather[k - 1] \o
                 SelectSeq(all_users[k].submissions,
                           LAMBDA s : s.assignment_id = assignment.id)
    IN Gather[Len(all_users)]

\* database.py 276-279: WHERE role = 'student' AND is_active = 1
get_all_students(all_users) == SelectSeq(all_users, LAMBDA u : u.is_active)

\* lines 1002-1007: the submissions to the assignment of the students that
\* get_all_students returns
AssignmentSubmissions(assignment, all_users) ==
    LET students == get_all_students(all_users)
        Gather[k \in 0..Len(students)] ==
            IF k = 0 THEN <<>>
            ELSE Gather[k - 1] \o
                 SelectSeq(students[k].submissions,
                           LAMBDA s : s.assignment_id = assignment.id)
    IN Gather[Len(students)]

\* lines 1009-1028
AssignmentStatisticsRow(assignment, all_users) ==
    LET assignment_submissions == AssignmentSubmissions(assignment, all_users)
        total_score == SumOf(assignment_submissions, "total_score")
        total_possible == SumOf(assignment_submissions, "max_score")
        avg_percentage == IF total_possible > 0
                          THEN PercentageOf(total_score, total_possible)
                          ELSE Rat(0, 1)
    IN IF assignment_submissions # <<>>
       THEN [called |-> TRUE,
             submission_count |-> Len(assignment_submissions),
             avg_percentage |-> avg_percentage,
             difficulty |-> IF RatGE(avg_percentage, Rat(80, 1)) THEN "Easy"
                            ELSE IF RatGE(avg_percentage, Rat(60, 1)) THEN "Medium"
                            ELSE "Hard"]
       ELSE [called |-> TRUE,
             submission_count |-> 0,
             avg_percentage |-> NULL,
             difficulty |-> "N/A"]

\* a student's stored submissions: none, or one to assignment 1 (10 points)
\* or to assignment 2, total_score in tenths
StoredSubmissions ==
    {<<>>} \cup
    { <<[assignment_id |-> a, total_score |-> t, max_score |-> 10]>> :
          a \in {1, 2}, t \in {59, 60, 79, 80, 100} }

UserRows == [is_active : BOOLEAN, submissions : StoredSubmissions]

InitAssignmentStatistics ==
    /\ InitDB
    /\ InitNoProcedure
    /\ InitNoGrade
    /\ f_args \in [assignment : {[id |-> 1]}, users : SeqsUpTo(UserRows, MaxStudents)]
    /\ f_result = NotCalled

ViewAssignmentStatistics ==
    /\ f_result = NotCalled
    /\ f_result' = AssignmentStatisticsRow(f_args.assignment, f_args.users)
    /\ UNCHANGED <<f_args, dbvars, gvars, frame>>

NextAssignmentStatistics == ViewAssignmentStatistics

SpecAssignmentStatistics ==
    InitAssignmentStatistics /\ [][NextAssignmentStatistics]_vars

----------------------------------------------------------------------------
(* Student.view_performance_summary: highlights and recent trend *)

\* lines 554, 558: the key of max() and min()
PercentageKey(s) ==
    IF s.max_score > 0 THEN PercentageOf(s.total_score, s.max_score) ELSE Rat(0, 1)

\* max() that keeps the last of several largest items
MaxIndexLast(subs) ==
    LET Best[k \in 1..Len(subs)] ==
            IF k = 1 THEN 1
            ELSE IF RatGE(PercentageKey(subs[k]), PercentageKey(subs[Best[k - 1]]))
                 THEN k ELSE Best[k - 1]
    IN Best[Len(subs)]

\* lines 552-555: max(submissions, key=...) returns the first of several
\* largest items; the result is its position
MaxIndex(subs) ==
    LET Best[k \in 1..Len(subs)] ==
            IF k = 1 THEN 1
            ELSE IF RatGT(PercentageKey(subs[k]), PercentageKey(subs[Best[k - 1]]))
                 THEN k ELSE Best[k - 1]
    IN Best[Len(subs)]

\* lines 556-559: min(submissions, key=...), the first of several smallest
MinIndex(subs) ==
    LET Worst[k \in 1..Len(subs)] ==
            IF k = 1 THEN 1
            ELSE IF RatLT(PercentageKey(subs[k]), PercentageKey(subs[Worst[k - 1]]))
                 THEN k ELSE Worst[k - 1]
    IN Worst[Len(subs)]

\* sorted(..., key=submitted_at) is stable: an item goes behind the items
\* that are not later than it
RECURSIVE InsertByTime(_, _)
InsertByTime(sorted, s) ==
    IF sorted = <<>> THEN <<s>>
    ELSE IF sorted[Len(sorted)].submitted_at <= s.submitted_at
         THEN Append(sorted, s)
         ELSE Append(InsertByTime(SubSeq(sorted, 1, Len(sorted) - 1), s),
                     sorted[Len(sorted)])

RECURSIVE SortedByTime(_)
SortedByTime(subs) ==
    IF subs = <<>> THEN <<>>
    ELSE InsertByTime(SortedByTime(SubSeq(subs, 1, Len(subs) - 1)), subs[Len(subs)])

\* seq[-3:]
LastThree(seq) == SubSeq(seq, IF Len(seq) > 3 THEN Len(seq) - 2 ELSE 1, Len(seq))

\* the window taken from the list in the order storage returned it
RecentSubmissionsUnsorted(subs) == LastThree(subs)

\* line 579: sorted(submissions, key=lambda s: s['submitted_at'])[-3:]
RecentSubmissions(subs) == LastThree(SortedByTime(subs))

\* the trend with the 5-point thresholds taken inclusively
_analyze_performance_trend_inclusive(recent_submissions) ==
    LET scores == ScoresOf(recent_submissions)
        first == scores[1]
        last_ == scores[Len(scores)]
    IN IF Len(scores) < 2 THEN "Insufficient data"
       ELSE IF RatGE(last_, RatAdd(first, Rat(5, 1)))
            THEN " Improving (Keep up the good work!)"
       ELSE IF RatGE(RatSub(first, Rat(5, 1)), last_)
            THEN " Declining (Consider additional study time)"
       ELSE " Stable (Consistent performance)"

\* lines 604-621
_analyze_performance_trend(recent_submissions) ==
    LET scores == ScoresOf(recent_submissions)
        first == scores[1]
        last_ == scores[Len(scores)]
    IN IF Len(scores) < 2 THEN "Insufficient data"
       ELSE IF RatGT(last_, RatAdd(first, Rat(5, 1)))
            THEN " Improving (Keep up the good work!)"
       ELSE IF RatLT(last_, RatSub(first, Rat(5, 1)))
            THEN " Declining (Consider additional study time)"
       ELSE " Stable (Consistent performance)"

\* what the summary prints of the highlights and the trend; "" for a line
\* that is not printed, 0 for a submission that is not selected
view_performance_summary(subs) ==
    IF subs = <<>>
    THEN [called |-> TRUE, best |-> 0, worst |-> 0, trend |-> ""]
    ELSE [called |-> TRUE,
          best |-> MaxIndex(subs),
          worst |-> MinIndex(subs),
          trend |-> IF Len(subs) >= 3
                    THEN _analyze_performance_trend(RecentSubmissions(subs))
                    ELSE ""]

\* total_score (tenths) and max_score of the stored submissions
SummaryScores ==
    { [total_score |-> 50, max_score |-> 10], [total_score |-> 55, max_score |-> 10],
      [total_score |-> 56, max_score |-> 10], [total_score |-> 0, max_score |-> 0] }

\* submitted_at has a resolution of one second: two rows can carry the same
SummaryRows ==
    { [total_score |-> x.total_score, max_score |-> x.max_score, submitted_at |-> t] :
          x \in SummaryScores, t \in {1, 2, 3, 4} }

\* database.py 533: ORDER BY s.submitted_at DESC
RECURSIVE StoredHistories(_)
StoredHistories(n) ==
    IF n = 0 THEN {<<>>}
    ELSE LET shorter == StoredHistories(n - 1) IN
         shorter \cup
         { q \in { Append(h, r) : h \in shorter, r \in SummaryRows } :
               \A i \in 1..(Len(q) - 1) : q[i].submitted_at >= q[i + 1].submitted_at }

InitSummary ==
    /\ InitDB
    /\ InitNoProcedure
    /\ InitNoGrade
    /\ f_args \in [submissions : StoredHistories(MaxHistory)]
    /\ f_result = NotCalled

ViewPerformanceSummary ==
    /\ f_result = NotCalled
    /\ f_result' = view_performance_summary(f_args.submissions)
    /\ UNCHANGED <<f_args, dbvars, gvars, frame>>

NextSummary == ViewPerformanceSummary

SpecSummary == InitSummary /\ [][NextSummary]_vars

----------------------------------------------------------------------------
(* DatabaseManager: the users table *)

\* SQLite's LOWER() folds the 26 ASCII letters and leaves every other
\* character as it is
SqlLowerChar(c) ==
    IF \E i \in DOMAIN UpperCase : UpperCase[i] = c
    THEN LowerCase[CHOOSE i \in DOMAIN UpperCase : UpperCase[i] = c]
    ELSE c

SqlLower(s) == [i \in DOMAIN s |-> SqlLowerChar(s[i])]

\* lines 196-203: WHERE LOWER(name) = LOWER(?) AND login_code = ?
\* AND role = 'student' AND is_active = 1, with (name.strip(), login_code.upper())
VerifyStudentRows(name, login_code) ==
    { i \in DOMAIN users :
        /\ users[i].role = "student"
        /\ users[i].is_active = 1
        /\ SqlLower(users[i].name) = SqlLower(Strip(name))
        /\ users[i].login_code = Upper(login_code) }

\* lines 205-206: fetchone() of the rows in id order; the user's id, or 0
\* for None
verify_student(name, login_code) ==
    LET rows == VerifyStudentRows(name, login_code) IN
    IF rows = {} THEN 0
    ELSE CHOOSE i \in rows : \A j \in rows : i <= j

VerifyStudent(name, login_code) ==
    /\ last' = [op |-> "verify_student",
                args |-> [name |-> name, login_code |-> login_code],
                ret |-> verify_student(name, login_code)]
    /\ UNCHANGED <<users, assignments, questions, submissions, answers,
                   seq_submissions, calls, gvars, fvars, frame>>

\* the codes random.choices can draw (two characters here instead of six)
LoginCodes == { <<"A", "1">>, <<"B", "2">>, <<"C", "3">> }

\* lines 149-162: a drawn code is returned when no user holds it
generate_login_code == { c \in LoginCodes : \A i \in DOMAIN users : users[i].login_code # c }

\* lines 222-233
AddStudent(name, teacher_id) ==
    /\ Len(users) < Len(DefaultTeachers) + MaxStudents
    /\ \E login_code \in generate_login_code :
          /\ users' = Append(users,
                 [ id |-> Len(users) + 1, name |-> Strip(name), role |-> "student",
                   username |-> NULL, password |-> NULL,
                   login_code |-> login_code, created_by |-> teacher_id,
                   is_active |-> 1 ])
          /\ last' = [op |-> "add_student",
                      args |-> [name |-> name, teacher_id |-> teacher_id],
                      ret |-> login_code]
    /\ UNCHANGED <<assignments, questions, submissions, answers, seq_submissions,
                   calls, gvars, fvars, frame>>

\* the UPDATE of lines 298-302 without the condition on created_by
DeactivateRowsOfAnyTeacher(student_id, teacher_id) ==
    { i \in DOMAIN users :
        /\ users[i].id = student_id
        /\ users[i].role = "student" }

\* lines 298-302: WHERE id = ? AND created_by = ? AND role = 'student'
DeactivateRows(student_id, teacher_id) ==
    { i \in DOMAIN users :
        /\ users[i].id = student_id
        /\ users[i].role = "student"
        /\ users[i].created_by = teacher_id }

\* lines 290-311: returns cursor.rowcount > 0
DeactivateStudent(student_id, teacher_id) ==
    LET rows == DeactivateRows(student_id, teacher_id) IN
    /\ users' = [ i \in DOMAIN users |->
                    IF i \in rows THEN [users[i] EXCEPT !.is_active = 0]
                    ELSE users[i] ]
    /\ last' = [op |-> "deactivate_student",
                args |-> [student_id |-> student_id, teacher_id |-> teacher_id],
                ret |-> rows # {}]
    /\ UNCHANGED <<assignments, questions, submissions, answers, seq_submissions,
                   calls, gvars, fvars, frame>>

\* names as the teacher types them (letters and spaces) and as a student does
StudentNames == { <<"A", "l">>, <<" ", "A", "l">>, <<"Z", "o", "é">> }
LoginNames == { <<"a", "L", " ">>, <<"Z", "o", "é">>, <<"Z", "O", "É">> }
TypedCodes == { <<"a", "1">>, <<"B", "2">>, <<"C", "3">> }
AllTeacherIds == { DefaultTeachers[i].id : i \in DOMAIN DefaultTeachers }

NextUsers ==
    \/ \E name \in StudentNames, t \in AllTeacherIds : AddStudent(name, t)
    \/ \E s \in 1..(Len(DefaultTeachers) + MaxStudents), t \in AllTeacherIds :
          DeactivateStudent(s, t)
    \/ \E name \in LoginNames, c \in TypedCodes : VerifyStudent(name, c)

SpecUsers == Init /\ [][NextUsers]_vars

----------------------------------------------------------------------------
(* Every operation of DatabaseManager that writes, on one database *)

NextLifecycle ==
    \/ \E qs \in AssignmentInputs \ {ScenarioQuestions}, t \in TeacherIds :
          SaveAssignment([questions |-> qs, teacher_id |-> t])
    \/ \E a \in 1..MaxAssignments :
          /\ SaveSubmission([assignment_id |-> a, student_id |-> 3,
                             answers |-> ScenarioAnswers])
          /\ UNCHANGED frame
    \/ \E t \in AllTeacherIds : AddStudent(<<"A", "l">>, t)
    \/ \E s \in 1..(Len(DefaultTeachers) + MaxStudents), t \in TeacherIds :
          DeactivateStudent(s, t)

SpecLifecycle == Init /\ [][NextLifecycle]_vars

----------------------------------------------------------------------------
(* AuthenticationManager: the login loops *)

max_attempts == 3

\* database.py 176-180: WHERE username = ? AND password = ? AND
\* role = 'teacher' AND is_active = 1; the user's id, or 0 for None
verify_teacher(username, password) ==
    LET rows == { i \in DOMAIN users :
                    /\ users[i].role = "teacher"
                    /\ users[i].is_active = 1
                    /\ users[i].username = username
                    /\ users[i].password = password }
    IN IF rows = {} THEN 0 ELSE CHOOSE i \in rows : \A j \in rows : i <= j

\* the loop condition with the bound included
LoopContinuesInclusive(attempts) == attempts <= max_attempts

\* lines 34, 87: while attempts < max_attempts
LoopContinues(attempts) == attempts < max_attempts

\* lines 20-26: authenticate_user enters the loop of the role
AuthenticateUser(role) ==
    /\ IF frame = NoFrame THEN TRUE ELSE frame.pc = "returned"
    /\ frame' = [ name |-> IF role = "teacher" THEN "_authenticate_teacher"
                           ELSE "_authenticate_student",
                  pc |-> IF LoopContinues(0) THEN "loop" ELSE "returned",
                  attempts |-> 0,
                  verified |-> 0,     \* history: the verify_* calls made
                  typed |-> <<>>,     \* the credentials of the last attempt
                  ret |-> 0 ]
    /\ UNCHANGED <<dbvars, gvars, fvars>>

\* return None without a further attempt
ReturnNone(typed) == [frame EXCEPT !.pc = "returned", !.typed = typed, !.ret = 0]

\* attempts += 1, then the loop condition again; return None when it fails
FailedAttempt(typed, verifications) ==
    [frame EXCEPT !.attempts = @ + 1,
                  !.verified = @ + verifications,
                  !.typed = typed,
                  !.pc = IF LoopContinues(frame.attempts + 1) THEN "loop"
                         ELSE "returned",
                  !.ret = 0]

\* return user_data
ReturnUser(typed, user) ==
    [frame EXCEPT !.pc = "returned", !.verified = @ + 1, !.typed = typed,
                  !.ret = user]

\* lines 34-73, one pass of the loop; NULL is a prompt left with Ctrl-C
TeacherAttempt(username, password) ==
    /\ frame.name = "_authenticate_teacher"
    /\ frame.pc = "loop"
    /\ LET typed == <<username, password>>
           user == verify_teacher(username, password)
       IN frame' = IF username = NULL \/ password = NULL THEN ReturnNone(typed)
                   ELSE IF password = <<>> THEN FailedAttempt(typed, 0)
                   ELSE IF user # 0 THEN ReturnUser(typed, user)
                   ELSE FailedAttempt(typed, 1)
    /\ UNCHANGED <<dbvars, gvars, fvars>>

\* lines 87-120, one pass of the loop
StudentAttempt(name, login_code) ==
    /\ frame.name = "_authenticate_student"
    /\ frame.pc = "loop"
    /\ LET typed == <<name, login_code>>
           user == IF name = NULL \/ login_code = NULL THEN 0
                   ELSE verify_student(name, login_code)
       IN frame' = IF name = NULL \/ login_code = NULL THEN ReturnNone(typed)
                   ELSE IF user # 0 THEN ReturnUser(typed, user)
                   ELSE FailedAttempt(typed, 1)
    /\ UNCHANGED <<dbvars, gvars, fvars>>

TypedUsernames == { <<"K","e","v","i","n">>, <<"k","e","v","i","n">>, NULL }
TypedPasswords ==
    { <<"p","a","s","s","w","o","r","d","1","2","3">>, <<"x">>, <<>>, NULL }

NextLogin ==
    \/ \E role \in {"teacher", "student"} : AuthenticateUser(role)
    \/ \E u \in TypedUsernames, p \in TypedPasswords : TeacherAttempt(u, p)
    \/ \E n \in {<<"a", "L">>, NULL}, c \in TypedCodes \cup {NULL} :
          StudentAttempt(n, c)
    \/ /\ frame = NoFrame
       /\ AddStudent(<<"A", "l">>, 1)

SpecLogin == Init /\ [][NextLogin]_vars

----------------------------------------------------------------------------
(* Student.submit_assignment: the submission workflow *)

\* the frame of a call that has returned: its locals are gone
Returned(f, declined) ==
    [f EXCEPT !.pc = "returned", !.qs = <<>>, !.i = 0, !.answers = <<>>,
              !.declined = declined]

\* a procedure may start when none is running
NoProcedureRunning == IF frame = NoFrame THEN TRUE ELSE frame.pc = "returned"

\* line 99-100: the assignments the student has a submission for
submitted_assignment_ids(student_id) ==
    { s.assignment_id : s \in { t \in submissions : t.student_id = student_id } }

\* every answer is kept, a cancelled one too
CancelledNever(answer) == FALSE

\* line 179: None means user cancelled
Cancelled(answer) == answer = NULL

SubmitFrame(student_id, assignment_id, pc, declined) ==
    [ name |-> "submit_assignment",
      pc |-> pc,
      student_id |-> student_id,
      assignment_id |-> assignment_id,
      qs |-> IF pc = "returned" THEN <<>>
             ELSE get_assignment_questions(assignment_id),
      i |-> 0,
      answers |-> <<>>,
      started |-> FALSE,
      resubmit |-> FALSE,
      declined |-> declined ]    \* history: the prompt declined or cancelled

\* lines 142-150: no questions returns, otherwise the start prompt
AfterResubmitCheck(student_id, assignment_id) ==
    IF get_assignment_questions(assignment_id) = <<>>
    THEN SubmitFrame(student_id, assignment_id, "returned", "none")
    ELSE SubmitFrame(student_id, assignment_id, "confirm_start", "none")

\* lines 88-150 up to the first prompt after the assignment ID; assignment_id
\* is what validate_input returned, 0 standing for None
SubmitAssignment(student_id, assignment_id) ==
    /\ NoProcedureRunning
    /\ frame' =
         IF assignments = <<>>
         THEN SubmitFrame(student_id, 0, "returned", "none")
         ELSE IF assignment_id = 0
         THEN SubmitFrame(student_id, 0, "returned", "assignment")
         ELSE IF assignment_id \notin { assignments[k].id : k \in DOMAIN assignments }
         THEN SubmitFrame(student_id, assignment_id, "returned", "none")
         ELSE IF assignment_id \in submitted_assignment_ids(student_id)
         THEN SubmitFrame(student_id, assignment_id, "confirm_resubmit", "none")
         ELSE AfterResubmitCheck(student_id, assignment_id)
    /\ UNCHANGED <<dbvars, gvars, fvars>>

\* lines 137-140: confirm_action("Do you want to resubmit? ...")
ConfirmResubmit(yes) ==
    /\ frame.name = "submit_assignment"
    /\ frame.pc = "confirm_resubmit"
    /\ frame' =
         IF ~yes
         THEN Returned(frame, "resubmit")
         ELSE [AfterResubmitCheck(frame.student_id, frame.assignment_id)
                 EXCEPT !.resubmit = TRUE]
    /\ UNCHANGED <<dbvars, gvars, fvars>>

\* lines 168-171: confirm_action("Ready to start the assignment?")
ConfirmStart(yes) ==
    /\ frame.name = "submit_assignment"
    /\ frame.pc = "confirm_start"
    /\ frame' =
         IF ~yes
         THEN Returned(frame, "start")
         ELSE [frame EXCEPT !.pc = "question", !.started = TRUE]
    /\ UNCHANGED <<dbvars, gvars, fvars>>

\* lines 174-182, one pass of the loop; answer is what _get_question_answer
\* returned (NULL for None), and interrupted is Ctrl-C at the first line of an
\* essay (line 252), which leaves the workflow as a KeyboardInterrupt
AnswerQuestion(answer, interrupted) ==
    /\ frame.name = "submit_assignment"
    /\ frame.pc = "question"
    /\ interrupted => frame.qs[frame.i + 1].question_type = "subjective"
    /\ frame' =
         IF interrupted
         THEN Returned(frame, "KeyboardInterrupt")
         ELSE IF Cancelled(answer)
         THEN Returned(frame, "question")
         ELSE [frame EXCEPT !.answers = (Str(frame.i) :> answer) @@ @,
                            !.i = @ + 1,
                            !.pc = IF frame.i + 1 < Len(frame.qs)
                                   THEN "question" ELSE "review"]
    /\ UNCHANGED <<dbvars, gvars, fvars>>

\* lines 185-186 and 322-332: the review prompt, then save_submission
ReviewAnswers(yes) ==
    /\ frame.name = "submit_assignment"
    /\ frame.pc = "review"
    /\ IF ~yes
       THEN /\ frame' = Returned(frame, "review")
            /\ UNCHANGED <<dbvars, gvars, fvars>>
       ELSE /\ SaveSubmission([assignment_id |-> frame.assignment_id,
                               student_id |-> frame.student_id,
                               answers |-> frame.answers])
            /\ frame' = Returned(frame, "none")

TypedAnswers == { <<>>, <<"B">>, NULL }

NextSubmit ==
    \/ \E qs \in AssignmentInputs \ {ScenarioQuestions} :
          /\ NoProcedureRunning
          /\ SaveAssignment([questions |-> qs, teacher_id |-> 1])
    \/ \E a \in 0..(MaxAssignments + 1) : SubmitAssignment(3, a)
    \/ \E yes \in BOOLEAN : ConfirmResubmit(yes)
    \/ \E yes \in BOOLEAN : ConfirmStart(yes)
    \/ \E answer \in TypedAnswers, interrupted \in BOOLEAN :
          AnswerQuestion(answer, interrupted)
    \/ \E yes \in BOOLEAN : ReviewAnswers(yes)

SpecSubmit == Init /\ [][NextSubmit]_vars

----------------------------------------------------------------------------
(* MenuManager.run_menu_loop *)

\* student.py 23-28, teacher.py 20-26: options "1" .. "6" or "7", Logout last
NumberOfOptions(role) == IF role = "student" THEN 6 ELSE 7

\* what calling an option's function does: it returns a value or raises.
\* logout returns "logout"; the other handlers return None, raise an Exception,
\* or let a KeyboardInterrupt out of a bare input() (student.py 252)
HandlerOutcomes(role, choice) ==
    IF choice = Str(NumberOfOptions(role)) THEN {"logout"}
    ELSE {"None", "Exception", "KeyboardInterrupt"}

\* user.py 105-111: except Exception returns False; a KeyboardInterrupt is
\* not an Exception and goes on to the caller
execute(outcome) ==
    IF outcome = "Exception" THEN [raised |-> FALSE, result |-> "False"]
    ELSE IF outcome = "KeyboardInterrupt" THEN [raised |-> TRUE, result |-> outcome]
    ELSE [raised |-> FALSE, result |-> outcome]

\* the menu is displayed once more
MenuAgain == [frame EXCEPT !.pc = "menu", !.shown = @ + 1,
                           !.choice = "None", !.result = "None"]

\* lines 28-33: show_menu enters the loop and displays the menu
ShowMenu(role) ==
    /\ NoProcedureRunning
    /\ frame' = [ name |-> "run_menu_loop",
                  pc |-> "menu",
                  role |-> role,
                  shown |-> 1,       \* history: the times the menu was displayed
                  choice |-> "None",
                  result |-> "None",
                  left |-> "none" ]  \* how the loop was left
    /\ UNCHANGED <<dbvars, gvars, fvars>>

\* lines 157-163: choice is what validate_input returned, "None" for None
\* (Ctrl-C at the prompt); a valid choice is never 'Q' or '0'
GetUserChoice(choice) ==
    /\ frame.name = "run_menu_loop"
    /\ frame.pc = "menu"
    /\ frame.shown < MaxShown
    /\ frame' = IF choice = "None" THEN MenuAgain
                ELSE [frame EXCEPT !.pc = "execute", !.choice = choice]
    /\ UNCHANGED <<dbvars, gvars, fvars>>

\* lines 165-169: execute_choice, then the break on Logout or "logout"
ExecuteChoice(outcome) ==
    /\ frame.name = "run_menu_loop"
    /\ frame.pc = "execute"
    /\ outcome \in HandlerOutcomes(frame.role, frame.choice)
    /\ LET done == execute(outcome) IN
       frame' =
         IF done.raised
         THEN [frame EXCEPT !.pc = "returned", !.result = done.result,
                            !.left = "raise"]
         ELSE IF \/ frame.choice = Str(NumberOfOptions(frame.role))
                 \/ done.result = "logout"
         THEN [frame EXCEPT !.pc = "returned", !.result = done.result,
                            !.left = "break"]
         ELSE [frame EXCEPT !.pc = "wait", !.result = done.result]
    /\ UNCHANGED <<dbvars, gvars, fvars>>

\* line 171 and lines 42-44: input("Press Enter to continue...") with nothing
\* around it to catch Ctrl-C or the end of the input
WaitForInput(key) ==
    /\ frame.name = "run_menu_loop"
    /\ frame.pc = "wait"
    /\ frame' = IF key = "Enter" THEN MenuAgain
                ELSE [frame EXCEPT !.pc = "returned", !.left = "raise"]
    /\ UNCHANGED <<dbvars, gvars, fvars>>

NextMenu ==
    \/ \E role \in {"student", "teacher"} : ShowMenu(role)
    \/ \E k \in 0..7 :
          /\ frame.name = "run_menu_loop"
          /\ k <= NumberOfOptions(frame.role)
          /\ GetUserChoice(IF k = 0 THEN "None" ELSE Str(k))
    \/ \E outcome \in {"None", "Exception", "KeyboardInterrupt", "logout"} :
          ExecuteChoice(outcome)
    \/ \E key \in {"Enter", "KeyboardInterrupt", "EOFError"} : WaitForInput(key)

SpecMenu == Init /\ [][NextMenu]_vars

----------------------------------------------------------------------------
(* Declarative readings of the text operations, used to state the claims *)

SameLetter(c, d) ==
    \E i \in DOMAIN LowerCase : {c, d} \subseteq {LowerCase[i], UpperCase[i]}

EqualIgnoringCase(s, t) ==
    /\ Len(s) = Len(t)
    /\ \A i \in DOMAIN s : s[i] = t[i] \/ SameLetter(s[i], t[i])

\* t is s without its leading and trailing whitespace
IsTrimOf(t, s, i, j) ==
    /\ i + j <= Len(s)
    /\ t = SubSeq(s, i + 1, Len(s) - j)
    /\ \A k \in 1..i : s[k] \in Whitespace
    /\ \A k \in (Len(s) - j + 1)..Len(s) : s[k] \in Whitespace
    /\ t # <<>> => (t[1] \notin Whitespace /\ t[Len(t)] \notin Whitespace)

EqualTrimmedIgnoringCase(a, b) ==
    \E i, j \in 0..Len(a) : \E m, n \in 0..Len(b) :
        /\ IsTrimOf(SubSeq(a, i + 1, Len(a) - j), a, i, j)
        /\ IsTrimOf(SubSeq(b, m + 1, Len(b) - n), b, m, n)
        /\ EqualIgnoringCase(SubSeq(a, i + 1, Len(a) - j), SubSeq(b, m + 1, Len(b) - n))

\* the number of whitespace-separated words: the positions where a word starts
WordStarts(s) ==
    { i \in DOMAIN s : s[i] \notin Whitespace /\ (i = 1 \/ s[i - 1] \in Whitespace) }

Graded == g_result # NoResult

IsString(x) == x # NULL

----------------------------------------------------------------------------
(* Claims about _grade_answer (checked under SpecGrade) *)

\* C1: an objective answer scores the question's points when it equals the
\* correct answer after trimming surrounding whitespace and ignoring case on
\* both sides, and scores 0 otherwise.
C1_ObjectiveExactMatch ==
    (Graded /\ g_question.question_type = "objective"
            /\ IsString(g_question.correct_answer))
    => /\ ~g_result.raised
       /\ g_result.score =
            IF EqualTrimmedIgnoringCase(g_answer, g_question.correct_answer)
            THEN g_question.points * 10 ELSE 0

\* C1 witness: " a " graded against a correct answer with trailing whitespace
\* ("a ") earns the points.
C1_Witness ==
    /\ Graded
    /\ g_question.question_type = "objective"
    /\ g_question.correct_answer = <<"a", " ">>
    /\ g_answer = <<" ", "a", " ">>
    /\ g_result.score = g_question.points * 10

\* C2 (as claimed): an objective question whose correct_answer is missing
\* (NULL or empty) never fails and scores 0 for every student answer.
C2_MissingCorrectAnswerScoresZero ==
    (Graded /\ g_question.question_type = "objective"
            /\ g_question.correct_answer \in {NULL, <<>>})
    => (~g_result.raised /\ g_result.score = 0)

\* C3: a subjective answer is scored by its whitespace-separated word count:
\* no words 0 with "No answer provided.", 1-4 words 0.3 x points, 5-9 words
\* 0.6 x points, 10 or more words 0.8 x points.
C3_SubjectiveWordBands ==
    (Graded /\ g_question.question_type = "subjective")
    => LET n == Cardinality(WordStarts(g_answer)) IN
       /\ ~g_result.raised
       /\ n = 0 => (g_result.score = 0
                    /\ g_result.feedback = <<"No answer provided.">>)
       /\ (1 <= n /\ n <= 4) => g_result.score = g_question.points * 3
       /\ (5 <= n /\ n <= 9) => g_result.score = g_question.points * 6
       /\ n >= 10 => g_result.score = g_question.points * 8

\* C3 witness: a five-word answer, the lower edge of the 0.6 band.
C3_Witness ==
    /\ Graded
    /\ g_question.question_type = "subjective"
    /\ Cardinality(WordStarts(g_answer)) = 5
    /\ g_result.score = g_question.points * 6

\* C9: every graded answer has 0 <= score <= question.points.
C9_ScoreWithinPoints ==
    (Graded /\ ~g_result.raised)
    => (0 <= g_result.score /\ g_result.score <= g_question.points * 10)

\* C9 witness: a subjective answer of ten or more words, the largest partial
\* credit, has been graded.
C9_Witness ==
    /\ Graded
    /\ g_question.question_type = "subjective"
    /\ Cardinality(WordStarts(g_answer)) >= 10
    /\ g_result.score > 0

----------------------------------------------------------------------------
(* Readings of the tables, used to state the claims about storage *)

\* the answer rows of a submission, in the order they were inserted
AnswersOf(submission_id) ==
    SelectSeq(answers, LAMBDA r : r.submission_id = submission_id)

\* the ids of an assignment's question rows
QuestionIdsOf(assignment_id) ==
    { i \in DOMAIN questions : questions[i].assignment_id = assignment_id }

\* the question the teacher created at 0-based position i of the assignment:
\* the row with exactly i earlier rows of the same assignment
CreatedAt(assignment_id, i) ==
    CHOOSE q \in QuestionIdsOf(assignment_id) :
        Cardinality({ p \in QuestionIdsOf(assignment_id) : p < q }) = i

RECURSIVE SumOver(_, _)
SumOver(S, f) ==
    IF S = {} THEN 0
    ELSE LET x == CHOOSE y \in S : TRUE IN f[x] + SumOver(S \ {x}, f)

\* the successful save_submission calls of a pair (assignment, student)
CallsOf(assignment_id, student_id) ==
    { k \in DOMAIN calls : /\ calls[k].assignment_id = assignment_id
                           /\ calls[k].student_id = student_id }

----------------------------------------------------------------------------
(* Claims about save_assignment and save_submission (checked under Spec) *)

\* C4: every stored submission's total_score equals the sum of the scores of
\* the answer rows whose submission_id is that submission's id.
C4_TotalIsSumOfAnswers ==
    \A s \in submissions :
        s.total_score =
            SumOver({ i \in DOMAIN answers : answers[i].submission_id = s.id },
                    [ i \in DOMAIN answers |-> answers[i].score ])

\* C4 witness: a resubmission with a positive total is stored while answer rows
\* of the replaced submission, with positive scores, are still in the table.
C4_Witness ==
    \E s \in submissions :
        /\ s.submission_count = 2
        /\ s.total_score > 0
        /\ \E i \in DOMAIN answers :
              answers[i].submission_id # s.id /\ answers[i].score > 0

\* C5: there is at most one submission row per (assignment_id, student_id).
C5_OneSubmissionPerPair ==
    \A s, t \in submissions :
        (s.assignment_id = t.assignment_id /\ s.student_id = t.student_id)
        => s = t

\* C5 witness: two submissions of the same pair succeeded and one row is stored.
C5_Witness ==
    /\ seq_submissions = 2
    /\ Cardinality(submissions) = 1
    /\ calls[1].assignment_id = calls[2].assignment_id
    /\ calls[1].student_id = calls[2].student_id

\* C6: a stored submission holds exactly one answer per question of its
\* assignment, each graded from the answers of the latest successful call of
\* its pair; total_score is the sum of those grades and submission_count is
\* the number of successful calls of the pair.
C6_ResubmissionReplaces ==
    \A s \in submissions :
        LET mine == CallsOf(s.assignment_id, s.student_id)
            rows == AnswersOf(s.id)
            qids == QuestionIdsOf(s.assignment_id)
        IN /\ s.id \in mine
           /\ \A k \in mine : k <= s.id
           /\ s.submission_count = Cardinality(mine)
           /\ Len(rows) = Cardinality(qids)
           /\ \A q \in qids :
                 Cardinality({ k \in DOMAIN rows : rows[k].question_id = q }) = 1
           /\ \A k \in DOMAIN rows :
                 /\ rows[k].student_answer \in
                       { calls[s.id].answers[key] :
                           key \in DOMAIN calls[s.id].answers } \cup {<<>>}
                 /\ rows[k].score =
                       _grade_answer(questions[rows[k].question_id],
                                    rows[k].student_answer).score
           /\ s.total_score =
                 SumOver(DOMAIN rows, [ k \in DOMAIN rows |-> rows[k].score ])

\* C6 witness: a student resubmitted with other answers than the first time.
C6_Witness ==
    \E s \in submissions :
        /\ s.submission_count = 2
        /\ \E k \in CallsOf(s.assignment_id, s.student_id) :
              k < s.id /\ calls[k].answers # calls[s.id].answers

\* C7: every stored submission's max_score equals the sum of the points of its
\* assignment's questions, which equals the assignment's total_points.
C7_MaxScoreIsTotalPoints ==
    \A s \in submissions :
        /\ s.max_score =
              SumOver(QuestionIdsOf(s.assignment_id),
                      [ i \in DOMAIN questions |-> questions[i].points ])
        /\ s.max_score = assignments[s.assignment_id].total_points

\* C7 witness: a submission to an assignment whose points differ from its
\* number of questions is stored.
C7_Witness ==
    \E s \in submissions :
        /\ s.max_score > Cardinality(QuestionIdsOf(s.assignment_id))
        /\ \E t \in submissions : t.assignment_id # s.assignment_id

\* C8: the question created at 0-based position i is graded i-th, against the
\* answer under key str(i), or against the empty answer without such a key.
C8_PositionalAnswerLookup ==
    \A s \in submissions :
        LET rows == AnswersOf(s.id)
            given == calls[s.id].answers
            n == Cardinality(QuestionIdsOf(s.assignment_id))
        IN /\ Len(rows) = n
           /\ \A i \in 0..(n - 1) :
                 LET q == CreatedAt(s.assignment_id, i)
                     a == IF Str(i) \in DOMAIN given THEN given[Str(i)] ELSE <<>>
                 IN /\ questions[q].question_order = i + 1
                    /\ rows[i + 1].question_id = q
                    /\ rows[i + 1].student_answer = a
                    /\ rows[i + 1].score = _grade_answer(questions[q], a).score
                    /\ rows[i + 1].feedback = _grade_answer(questions[q], a).feedback

\* C8 witness: a submission without key "0" whose second question earned its
\* points from the answer under key "1".
C8_Witness ==
    \E s \in submissions :
        /\ "0" \notin DOMAIN calls[s.id].answers
        /\ "1" \in DOMAIN calls[s.id].answers
        /\ Len(AnswersOf(s.id)) = 2
        /\ AnswersOf(s.id)[1].student_answer = <<>>
        /\ AnswersOf(s.id)[2].score > 0

\* the assignment's questions are those of the scenario, in its order
IsScenarioAssignment(assignment_id) ==
    /\ Cardinality(QuestionIdsOf(assignment_id)) = 3
    /\ \A i \in 0..2 :
          LET q == questions[CreatedAt(assignment_id, i)] IN
          /\ q.question_type = ScenarioQuestions[i + 1].type
          /\ q.points = ScenarioQuestions[i + 1].points
          /\ q.question_type = "objective" =>
                q.correct_answer = ScenarioQuestions[i + 1].correct_answer

\* C10 (as claimed): the scenario's answers to the scenario's assignment are
\* graded 5, 0 and 6.0, with total_score 11.0 and max_score 20.
C10_ScenarioAsClaimed ==
    \A s \in submissions :
        (IsScenarioAssignment(s.assignment_id)
            /\ calls[s.id].answers = ScenarioAnswers)
        => /\ Len(AnswersOf(s.id)) = 3
           /\ [ k \in 1..3 |-> AnswersOf(s.id)[k].score ] = <<50, 0, 60>>
           /\ s.total_score = 110
           /\ s.max_score = 20

\* C10 (amended): the scenario's essay has ten words, so the scenario's
\* answers are graded 5, 0 and 8.0, with total_score 13.0 and max_score 20.
C10_Scenario ==
    \A s \in submissions :
        (IsScenarioAssignment(s.assignment_id)
            /\ calls[s.id].answers = ScenarioAnswers)
        => /\ Len(AnswersOf(s.id)) = 3
           /\ [ k \in 1..3 |-> AnswersOf(s.id)[k].score ] = <<50, 0, 80>>
           /\ s.total_score = 130
           /\ s.max_score = 20

\* C10 witness: the scenario has been submitted and its ten-word essay graded.
C10_Witness ==
    \E s \in submissions :
        /\ IsScenarioAssignment(s.assignment_id)
        /\ calls[s.id].answers = ScenarioAnswers
        /\ AnswersOf(s.id)[3].student_answer = ScenarioEssay
        /\ Cardinality(WordStarts(ScenarioEssay)) = 10
        /\ AnswersOf(s.id)[1].score = 50

----------------------------------------------------------------------------
(* Claims about calculate_percentage (checked under SpecPercentage) *)

\* C11: calculate_percentage returns 100 * score / max_score when max_score is
\* not 0, and 0 for every score when max_score = 0, without a division error.
C11_Percentage ==
    f_result.called =>
        /\ ~f_result.raised
        /\ f_args.max_score # 0 =>
              \* value = 100 * (score / 10) / max_score, cross-multiplied
              f_result.value.n * f_args.max_score * 10
                  = 100 * f_args.score * f_result.value.d
        /\ f_args.max_score = 0 => f_result.value.n = 0

\* C11 witness: a positive score over max_score 0 has been given 0.
C11_Witness ==
    /\ f_result.called
    /\ f_args.max_score = 0
    /\ f_args.score > 0
    /\ f_result.value.n = 0

----------------------------------------------------------------------------
(* Claims about the grade bands (checked under SpecLetter) *)

AtLeast(p, k) == p.n >= k * p.d

\* C12: get_grade_letter gives A from 90, B from 80 to below 90, C from 70 to
\* below 80, D from 60 to below 70 and F below 60.
C12_GradeLetterBands ==
    f_result.called =>
        LET p == f_args.percentage IN
        /\ f_result.letter = "A" <=> AtLeast(p, 90)
        /\ f_result.letter = "B" <=> (AtLeast(p, 80) /\ ~AtLeast(p, 90))
        /\ f_result.letter = "C" <=> (AtLeast(p, 70) /\ ~AtLeast(p, 80))
        /\ f_result.letter = "D" <=> (AtLeast(p, 60) /\ ~AtLeast(p, 70))
        /\ f_result.letter = "F" <=> ~AtLeast(p, 60)

\* C12 witness: 89.999 has been graded B.
C12_Witness ==
    /\ f_result.called
    /\ f_args.percentage = [n |-> 89999, d |-> 1000]
    /\ f_result.letter = "B"

\* C13: the letter and the description of a percentage are one of the pairs
\* (A, Excellent), (B, Very Good), (C, Good), (D, Satisfactory),
\* (F, Needs Improvement).
C13_DescriptionMatchesLetter ==
    f_result.called =>
        <<f_result.letter, f_result.description>> \in
            { <<"A", "Excellent">>, <<"B", "Very Good">>, <<"C", "Good">>,
              <<"D", "Satisfactory">>, <<"F", "Needs Improvement">> }

\* C13 witness: exactly 60 has been graded D and described as Satisfactory.
C13_Witness ==
    /\ f_result.called
    /\ f_args.percentage = [n |-> 60, d |-> 1]
    /\ f_result.letter = "D"
    /\ f_result.description = "Satisfactory"

----------------------------------------------------------------------------
(* Claims about calculate_class_statistics (checked under SpecClass) *)

\* the positions of the submissions with max_score > 0
Qualifying(subs) == { i \in DOMAIN subs : subs[i].max_score > 0 }

\* the percentage of the submission at position i, 100 * total / max
PercentAt(subs, i) == Rat(subs[i].total_score * 10, subs[i].max_score)

RECURSIVE RatSumOver(_, _)
RatSumOver(S, subs) ==
    IF S = {} THEN Rat(0, 1)
    ELSE LET i == CHOOSE j \in S : TRUE IN
         RatAdd(PercentAt(subs, i), RatSumOver(S \ {i}, subs))

Aggregates(r) ==
    <<r.average_score, r.highest_score, r.lowest_score, r.pass_rate>>

\* C14: the aggregates are computed over the submissions with max_score > 0
\* only, total_submissions counts every submission, and with no qualifying
\* submission the four aggregates are 0 (for the empty input so is
\* total_submissions).
C14_ClassStatisticsFilter ==
    f_result.called =>
        LET subs == f_args.submissions
            kept == SelectSeq(subs, LAMBDA x : x.max_score > 0)
        IN /\ f_result.total_submissions = Len(subs)
           /\ Qualifying(subs) = {} =>
                 Aggregates(f_result) = <<Rat(0, 1), Rat(0, 1), Rat(0, 1), Rat(0, 1)>>
           /\ Aggregates(f_result) = Aggregates(calculate_class_statistics(kept))

\* C14 witness: a list that holds a submission with max_score 0 between
\* qualifying ones has been aggregated, and all three are counted.
C14_Witness ==
    /\ f_result.called
    /\ Len(f_args.submissions) = 3
    /\ Cardinality(Qualifying(f_args.submissions)) = 2
    /\ f_args.submissions[2].max_score = 0
    /\ f_result.total_submissions = 3
    /\ f_result.average_score.n > 0

\* C15: over the qualifying submissions average_score is the unweighted mean
\* of the percentages, highest_score and lowest_score are their maximum and
\* minimum, and pass_rate is 100 x (number with percentage >= 60) / (number
\* qualifying); percentages 50, 70, 90 give 70, 90, 50 and 200/3, shown as 66.7.
C15_ClassStatisticsValues ==
    f_result.called =>
        LET subs == f_args.submissions
            Q == Qualifying(subs)
            n == Cardinality(Q)
            total == RatSumOver(Q, subs)
            passing == Cardinality({ i \in Q : AtLeast(PercentAt(subs, i), 60) })
        IN /\ Q # {} =>
                /\ f_result.average_score.n * total.d * n
                       = total.n * f_result.average_score.d
                /\ \E i \in Q : f_result.highest_score = PercentAt(subs, i)
                /\ \A i \in Q : RatGE(f_result.highest_score, PercentAt(subs, i))
                /\ \E i \in Q : f_result.lowest_score = PercentAt(subs, i)
                /\ \A i \in Q : RatGE(PercentAt(subs, i), f_result.lowest_score)
                /\ f_result.pass_rate.n * n = 100 * passing * f_result.pass_rate.d
           /\ [ i \in DOMAIN subs |-> IF i \in Q THEN PercentAt(subs, i) ELSE Rat(0, 1) ]
                  = <<Rat(50, 1), Rat(70, 1), Rat(90, 1)>>
              => /\ f_result.average_score = Rat(70, 1)
                 /\ f_result.highest_score = Rat(90, 1)
                 /\ f_result.lowest_score = Rat(50, 1)
                 /\ f_result.pass_rate = Rat(200, 3)
                 \* 66.65 <= pass_rate < 66.75: printed with one decimal as 66.7
                 /\ RatGE(f_result.pass_rate, Rat(6665, 100))
                 /\ RatLT(f_result.pass_rate, Rat(6675, 100))

\* C15 witness: submissions of unequal max_score, where the weighted and the
\* unweighted mean differ, have been aggregated; the mean is 70 (50 and 90).
C15_Witness ==
    /\ f_result.called
    /\ f_args.submissions = << [total_score |-> 50, max_score |-> 10],
                               [total_score |-> 180, max_score |-> 20] >>
    /\ f_result.average_score = Rat(70, 1)
    /\ f_result.pass_rate = Rat(50, 1)

----------------------------------------------------------------------------
(* Claims about the assignment statistics report (checked under
   SpecAssignmentStatistics) *)

\* the users, among those in U, that have a submission to the assignment
Submitters(U) ==
    { k \in U : \E i \in DOMAIN f_args.users[k].submissions :
          f_args.users[k].submissions[i].assignment_id = f_args.assignment.id }

\* the percentage of the submitter's submission to the assignment
SubmitterPercent(k) ==
    LET subs == f_args.users[k].submissions
        i == CHOOSE j \in DOMAIN subs : subs[j].assignment_id = f_args.assignment.id
    IN Rat(subs[i].total_score * 10, subs[i].max_score)

RECURSIVE PercentSum(_)
PercentSum(S) ==
    IF S = {} THEN Rat(0, 1)
    ELSE LET k == CHOOSE j \in S : TRUE IN
         RatAdd(SubmitterPercent(k), PercentSum(S \ {k}))

\* the difficulty that the bands give to the mean percentage of the submitters S
BandOf(S) ==
    LET total == PercentSum(S)
        n == Cardinality(S)
    IN IF total.n >= 80 * n * total.d THEN "Easy"
       ELSE IF total.n >= 60 * n * total.d THEN "Medium"
       ELSE "Hard"

\* C16 (as stated): the difficulty is N/A exactly when the assignment has no
\* submissions, and otherwise follows the bands on the average percentage of
\* its submissions.
C16_DifficultyAsClaimed ==
    f_result.called =>
        LET S == Submitters(DOMAIN f_args.users) IN
        /\ f_result.difficulty = "N/A" <=> S = {}
        /\ S # {} => f_result.difficulty = BandOf(S)

\* C16 (amended): the difficulty is N/A exactly when the assignment has no
\* submission by a currently active student; otherwise it is Easy when the
\* average percentage of the active students' submissions is >= 80, Medium
\* when it is >= 60 and < 80, and Hard when it is < 60.
C16_Difficulty ==
    f_result.called =>
        LET S == Submitters({ k \in DOMAIN f_args.users : f_args.users[k].is_active }) IN
        /\ f_result.difficulty = "N/A" <=> S = {}
        /\ f_result.submission_count = Cardinality(S)
        /\ S # {} => f_result.difficulty = BandOf(S)

\* C16 witness: a deactivated student holds a 100 % submission to the
\* assignment and an active student one of 59 %: the report says Hard, while
\* the mean over both (79.5 %) would be Medium.
C16_Witness ==
    /\ f_result.called
    /\ \E k \in DOMAIN f_args.users :
          /\ ~f_args.users[k].is_active
          /\ k \in Submitters({k})
          /\ SubmitterPercent(k) = Rat(100, 1)
    /\ \E k \in DOMAIN f_args.users :
          /\ f_args.users[k].is_active
          /\ k \in Submitters({k})
          /\ SubmitterPercent(k) = Rat(59, 1)
    /\ f_result.difficulty = "Hard"
    /\ f_result.submission_count = 1

----------------------------------------------------------------------------
(* Claims about the performance summary (checked under SpecSummary) *)

Improving == " Improving (Keep up the good work!)"
Declining == " Declining (Consider additional study time)"
Stable == " Stable (Consistent performance)"

\* the trend of a first and a last percentage, by the 5-point rule
TrendBetween(first, last_) ==
    LET diff == last_.n * first.d - first.n * last_.d
        five == 5 * first.d * last_.d
    IN IF diff > five THEN Improving
       ELSE IF diff < -five THEN Declining
       ELSE Stable

Reverse(seq) == [ i \in 1..Len(seq) |-> seq[Len(seq) + 1 - i] ]

\* the positions that come behind position i once the submissions are put in
\* ascending order of time, equal times staying in the order of storage
After(subs, i) ==
    { j \in DOMAIN subs :
          \/ subs[j].submitted_at > subs[i].submitted_at
          \/ subs[j].submitted_at = subs[i].submitted_at /\ j > i }

\* the 3 most recent submissions, and those of them with max_score > 0
Window(subs) == { i \in DOMAIN subs : Cardinality(After(subs, i)) < 3 }
DataPoints(subs) == { i \in Window(subs) : subs[i].max_score > 0 }

\* the most recent and the earliest position of a set of positions
MostRecent(subs, S) == CHOOSE i \in S : S \cap After(subs, i) = {}
Earliest(subs, S) == CHOOSE i \in S : S \ {i} \subseteq After(subs, i)

DistinctTimes(subs) ==
    \A i, j \in DOMAIN subs : i # j => subs[i].submitted_at # subs[j].submitted_at

\* C17 (as stated): with at least 2 data points the trend is reported by the
\* 5-point rule, and with fewer 'Insufficient data' is reported.
C17_TrendAsClaimed ==
    f_result.called =>
        LET subs == f_args.submissions
            P == DataPoints(subs)
        IN IF Cardinality(P) >= 2
           THEN f_result.trend = TrendBetween(PercentAt(subs, Earliest(subs, P)),
                                              PercentAt(subs, MostRecent(subs, P)))
           ELSE f_result.trend = "Insufficient data"

\* C17 (amended): a student with fewer than 3 submissions gets no trend line
\* at all; with 3 or more, the trend follows the 5-point rule (a difference of
\* exactly 5 is Stable) over the window's data points when there are at least
\* 2 of them, and is 'Insufficient data' otherwise.
C17_Trend ==
    f_result.called =>
        LET subs == f_args.submissions
            P == DataPoints(subs)
        IN IF Len(subs) < 3 THEN f_result.trend = ""
           ELSE IF Cardinality(P) >= 2
           THEN f_result.trend = TrendBetween(PercentAt(subs, Earliest(subs, P)),
                                              PercentAt(subs, MostRecent(subs, P)))
           ELSE f_result.trend = "Insufficient data"

\* C17 witness: three submissions whose last percentage is exactly 5 above
\* the first have been summarised as Stable.
C17_Witness ==
    /\ f_result.called
    /\ Len(f_args.submissions) = 3
    /\ DistinctTimes(f_args.submissions)
    /\ \A i \in 1..3 : f_args.submissions[i].max_score > 0
    /\ PercentAt(f_args.submissions, 3) = Rat(50, 1)
    /\ PercentAt(f_args.submissions, 1) = Rat(55, 1)
    /\ f_result.trend = Stable

\* C18 (as stated): the trend compares the most recent and the earliest of the
\* 3 most recent submissions, whatever the order in which storage returned
\* the submissions.
C18_WindowAsClaimed ==
    f_result.called /\ Len(f_args.submissions) >= 3 =>
        LET subs == f_args.submissions
            W == Window(subs)
        IN /\ view_performance_summary(Reverse(subs)).trend = f_result.trend
           /\ (\A i \in W : subs[i].max_score > 0) =>
                 f_result.trend = TrendBetween(PercentAt(subs, Earliest(subs, W)),
                                               PercentAt(subs, MostRecent(subs, W)))

\* C18 (amended): the window is the 3 most recent submissions after a stable
\* ascending sort by time, and the comparison is between the most recent and
\* the earliest of the window's submissions with max_score > 0; when the
\* submission times are pairwise distinct the result does not depend on the
\* order of storage (equal times keep the order of storage).
C18_Window ==
    f_result.called /\ Len(f_args.submissions) >= 3 =>
        LET subs == f_args.submissions
            P == DataPoints(subs)
        IN /\ DistinctTimes(subs) =>
                 view_performance_summary(Reverse(subs)).trend = f_result.trend
           /\ Cardinality(P) >= 2 =>
                 f_result.trend = TrendBetween(PercentAt(subs, Earliest(subs, P)),
                                               PercentAt(subs, MostRecent(subs, P)))

\* C18 witness: of four submissions at distinct times the oldest (56 %) is
\* outside the window: the trend compares 50 % with 56 % and is Improving.
C18_Witness ==
    /\ f_result.called
    /\ Len(f_args.submissions) = 4
    /\ DistinctTimes(f_args.submissions)
    /\ \A i \in 1..4 : f_args.submissions[i].max_score > 0
    /\ PercentAt(f_args.submissions, 4) = Rat(56, 1)
    /\ PercentAt(f_args.submissions, 3) = Rat(50, 1)
    /\ PercentAt(f_args.submissions, 1) = Rat(56, 1)
    /\ f_result.trend = Improving

\* the percentage by which the highlights compare: 0 when max_score is 0
KeyAt(subs, i) == IF subs[i].max_score = 0 THEN Rat(0, 1) ELSE PercentAt(subs, i)

\* C19: the best (worst) submission is the first, in the order of the input,
\* of the submissions with the highest (lowest) percentage, max_score = 0
\* counting as 0 %.
C19_TieBreakFirst ==
    f_result.called /\ f_args.submissions # <<>> =>
        LET subs == f_args.submissions
            b == f_result.best
            w == f_result.worst
        IN /\ b \in DOMAIN subs
           /\ \A i \in DOMAIN subs : RatGE(KeyAt(subs, b), KeyAt(subs, i))
           /\ \A i \in 1..(b - 1) : KeyAt(subs, i) # KeyAt(subs, b)
           /\ w \in DOMAIN subs
           /\ \A i \in DOMAIN subs : RatGE(KeyAt(subs, i), KeyAt(subs, w))
           /\ \A i \in 1..(w - 1) : KeyAt(subs, i) # KeyAt(subs, w)

\* C19 witness: the highest percentage is shared by two submissions and so is
\* the lowest, 0 %, by two of max_score 0; the first of each pair is selected.
C19_Witness ==
    /\ f_result.called
    /\ Len(f_args.submissions) = 4
    /\ \E i, j \in 1..4 :
          /\ i < j
          /\ f_result.best = i
          /\ f_args.submissions[i].max_score > 0
          /\ KeyAt(f_args.submissions, j) = KeyAt(f_args.submissions, i)
    /\ \E i, j \in 1..4 :
          /\ i < j
          /\ f_result.worst = i
          /\ f_args.submissions[i].max_score = 0
          /\ f_args.submissions[j].max_score = 0

----------------------------------------------------------------------------
(* Relational claim about _grade_answer (checked under SpecGrade) *)

\* one answer of every word count up to the bound, to compare with
ComparisonAnswers == { Repeat(<<"a">>, <<" ">>, k) : k \in 0..MaxWords }

\* C20: for a subjective question the score is monotonic non-decreasing in the
\* word count: an answer with at least as many words as another scores at
\* least as much.
C20_ScoreMonotonicInWords ==
    (Graded /\ g_question.question_type = "subjective")
    => \A y \in ComparisonAnswers :
          LET other == _grade_answer(g_question, y)
              n == Cardinality(WordStarts(g_answer))
              m == Cardinality(WordStarts(y))
          IN /\ n >= m => g_result.score >= other.score
             /\ m >= n => other.score >= g_result.score

\* C20 witness: a ten-word answer has been graded and scores more than a
\* nine-word answer to the same question does.
C20_Witness ==
    /\ Graded
    /\ g_question.question_type = "subjective"
    /\ Cardinality(WordStarts(g_answer)) = 10
    /\ g_result.score = g_question.points * 8
    /\ _grade_answer(g_question, Repeat(<<"a">>, <<" ">>, 9)).score
           = g_question.points * 6

----------------------------------------------------------------------------
(* Further claims about save_submission (checked under Spec) *)

\* C22: every row of the answers table refers to a submission row that still
\* exists.
C22_NoOrphanAnswers ==
    \A i \in DOMAIN answers :
        \E s \in submissions : s.id = answers[i].submission_id

\* C23: a save_submission for an assignment that has no questions returns
\* False and leaves the submissions and answers tables as they were.
C23_NoQuestionsNoChange ==
    [][ (/\ last'.op = "save_submission"
         /\ get_assignment_questions(last'.args.assignment_id) = <<>>)
        => /\ last'.ret = FALSE
           /\ submissions' = submissions
           /\ answers' = answers
           /\ seq_submissions' = seq_submissions ]_vars

\* C23 witness: a submission for an assignment without questions has been
\* refused while another assignment's submission, with its count, is stored.
C23_Witness ==
    /\ last.op = "save_submission"
    /\ last.ret = FALSE
    /\ last.args.assignment_id \in DOMAIN assignments
    /\ get_assignment_questions(last.args.assignment_id) = <<>>
    /\ \E s \in submissions : s.submission_count = 1 /\ AnswersOf(s.id) # <<>>

\* the question rows of the submission's assignment
QuestionsOfSubmission(s) ==
    { questions[i] : i \in QuestionIdsOf(s.assignment_id) }

\* C29: every stored submission has max_score > 0 and 0 <= total_score <=
\* max_score, and one whose assignment has a subjective question has
\* total_score strictly below max_score (total_score is in tenths).
C29_SubmissionScoreRange ==
    \A s \in submissions :
        /\ s.max_score > 0
        /\ 0 <= s.total_score
        /\ s.total_score <= s.max_score * 10
        /\ (\E q \in QuestionsOfSubmission(s) : q.question_type = "subjective")
               => s.total_score < s.max_score * 10

\* C29 witness: the scenario's submission is stored: 13.0 of 20 points, the
\* essay in the highest band.
C29_Witness ==
    \E s \in submissions :
        /\ \E q \in QuestionsOfSubmission(s) : q.question_type = "subjective"
        /\ \E k \in DOMAIN AnswersOf(s.id) :
              AnswersOf(s.id)[k].score = 80
        /\ s.total_score = 130
        /\ s.max_score = 20

----------------------------------------------------------------------------
(* Claims about the users table (checked under SpecUsers) *)

Students == { i \in DOMAIN users : users[i].role = "student" }

\* every name and code that is typed in at a login or given to add_student
TypedNames == LoginNames \cup StudentNames
TypedLoginCodes == TypedCodes \cup LoginCodes

\* no name and code authenticate a deactivated student
NeverAuthenticatesDeactivated ==
    \A i \in Students :
        users[i].is_active = 0 =>
            /\ \A n \in TypedNames, c \in TypedLoginCodes : verify_student(n, c) # i
            /\ last.op = "verify_student" => last.ret # i

\* what a deactivate_student step does to the table and returns
DeactivateStep ==
    last'.op = "deactivate_student" =>
        LET a == last'.args
            own == { i \in Students : /\ users[i].id = a.student_id
                                      /\ users[i].created_by = a.teacher_id }
        IN /\ last'.ret = (own # {})
           /\ DOMAIN users' = DOMAIN users
           /\ \A i \in DOMAIN users :
                 users'[i] = IF i \in own THEN [users[i] EXCEPT !.is_active = 0]
                             ELSE users[i]

NoReactivation ==
    \A i \in DOMAIN users :
        users[i].is_active = 0 => (i \in DOMAIN users' /\ users'[i].is_active = 0)

\* C26: deactivate_student sets is_active to 0 exactly for a student created
\* by that teacher and returns False, changing nothing, otherwise; a
\* deactivated student is never reactivated and never authenticated again.
C26_DeactivationIsFinal ==
    /\ []NeverAuthenticatesDeactivated
    /\ [][DeactivateStep /\ NoReactivation]_vars

\* C26 witness: a teacher has deactivated a student of theirs, whose own name
\* and code would select the row but for is_active.
C26_Witness ==
    /\ last.op = "deactivate_student"
    /\ last.ret = TRUE
    /\ \E i \in Students :
          /\ users[i].id = last.args.student_id
          /\ users[i].created_by = last.args.teacher_id
          /\ users[i].is_active = 0
          /\ verify_student(users[i].name, users[i].login_code) = 0
    /\ \E j \in Students : users[j].is_active = 1

\* the two cases of one letter, in any alphabet
SameLetterOfAnyAlphabet(c, d) == SameLetter(c, d) \/ {c, d} = {"é", "É"}

\* the typed name is the student's name up to case and surrounding whitespace
IsNameOf(typed, name) ==
    LET t == Strip(typed) IN
    /\ Len(t) = Len(name)
    /\ \A k \in DOMAIN t : t[k] = name[k] \/ SameLetterOfAnyAlphabet(t[k], name[k])

UniqueLoginCodes ==
    \A i, j \in Students : i # j => users[i].login_code # users[j].login_code

\* C27: no two users share a login code, and every added student
\* authenticates with their name, in any case, and the code add_student
\* returned.
C27_AddedStudentsAuthenticate ==
    /\ UniqueLoginCodes
    /\ \A i \in Students :
          users[i].is_active = 1 =>
              \A n \in TypedNames :
                  IsNameOf(n, users[i].name) =>
                      verify_student(n, users[i].login_code) = i

----------------------------------------------------------------------------
(* Claim about the lifecycle of questions and assignments (checked under
   SpecLifecycle) *)

\* C21: no operation changes an existing question or an existing assignment:
\* a step leaves every row of both tables as it was, and at most adds rows.
C21_QuestionsAndAssignmentsImmutable ==
    [][ /\ \A i \in DOMAIN questions :
              i \in DOMAIN questions' /\ questions'[i] = questions[i]
        /\ \A i \in DOMAIN assignments :
              i \in DOMAIN assignments' /\ assignments'[i] = assignments[i] ]_vars

\* C21 witness: after a first assignment with questions, a second assignment
\* was saved, the first was submitted and resubmitted, and a student was added
\* and deactivated.
C21_Witness ==
    /\ Len(assignments) = 2
    /\ assignments[1].total_points > 0
    /\ assignments[2].total_points > 0
    /\ \E s \in submissions : s.assignment_id = 1 /\ s.submission_count = 2
    /\ \E i \in Students : users[i].is_active = 0

----------------------------------------------------------------------------
(* Claim about the login loops (checked under SpecLogin) *)

InLogin == frame.name \in {"_authenticate_teacher", "_authenticate_student"}

\* what the typed credentials verify to: a user's id, or 0
Verifies(name, typed) ==
    IF typed = <<>> \/ typed[1] = NULL \/ typed[2] = NULL THEN 0
    ELSE IF name = "_authenticate_teacher"
         THEN (IF typed[2] = <<>> THEN 0 ELSE verify_teacher(typed[1], typed[2]))
         ELSE verify_student(typed[1], typed[2])

\* at most 3 failed attempts and 3 verifications in a call; the call goes on
\* only below 3 failed attempts and returns a user only when one verified
LoginBounds ==
    InLogin =>
        /\ frame.attempts <= 3
        /\ frame.verified <= 3
        /\ frame.pc = "loop" => (frame.attempts < 3 /\ frame.ret = 0)
        /\ frame.attempts = 3 => (frame.pc = "returned" /\ frame.ret = 0)
        /\ frame.ret # 0 => frame.ret = Verifies(frame.name, frame.typed)

\* one pass of the loop: credentials that verify return the user there and
\* then; an empty teacher password or credentials that do not verify count
\* one failed attempt
LoginAttempt ==
    (InLogin /\ frame.pc = "loop" /\ frame' # frame) =>
        LET typed == frame'.typed
            user == Verifies(frame.name, typed)
            cancelled == typed[1] = NULL \/ typed[2] = NULL
        IN /\ frame'.name = frame.name
           /\ user # 0 => (frame'.pc = "returned" /\ frame'.ret = user)
           /\ (user = 0 /\ ~cancelled) =>
                 (frame'.attempts = frame.attempts + 1 /\ frame'.ret = 0)
           /\ cancelled => (frame'.pc = "returned" /\ frame'.ret = 0)

\* C25: a login call allows at most 3 failed attempts: it returns the user at
\* the first attempt whose credentials verify and None once 3 attempts have
\* failed (an empty teacher password is a failed attempt), with no fourth
\* verification.
C25_ThreeLoginAttempts ==
    /\ []LoginBounds
    /\ [][LoginAttempt]_vars

\* C25 witness: a teacher login has returned None after an empty password and
\* two verifications that failed.
C25_Witness ==
    /\ frame.name = "_authenticate_teacher"
    /\ frame.pc = "returned"
    /\ frame.attempts = 3
    /\ frame.verified = 2
    /\ frame.ret = 0

----------------------------------------------------------------------------
(* Claim about the submission workflow (checked under SpecSubmit) *)

\* the step stores something or calls save_submission
Persists ==
    \/ <<submissions, answers, seq_submissions, calls>>' #
          <<submissions, answers, seq_submissions, calls>>
    \/ last' # last /\ last'.op = "save_submission"

\* the keys "0" .. "n-1" of the assignment's n questions
QuestionKeys(assignment_id) ==
    { Str(k - 1) : k \in 1..Len(get_assignment_questions(assignment_id)) }

\* the workflow stands at a confirmed start with an answer for every question
ReadyToSave ==
    /\ frame.name = "submit_assignment"
    /\ frame.pc = "review"
    /\ frame.started
    /\ frame.declined = "none"
    /\ frame.assignment_id \in submitted_assignment_ids(frame.student_id)
          => frame.resubmit
    /\ DOMAIN frame.answers = QuestionKeys(frame.assignment_id)
    /\ \A key \in DOMAIN frame.answers : frame.answers[key] # NULL

\* a step at which the student declines or cancels
Declines ==
    /\ frame'.name = "submit_assignment"
    /\ frame' # frame
    /\ frame'.declined # "none"

\* C24: in the submission workflow save_submission is called only after the
\* start was confirmed, an answer was recorded for every index 0..n-1 and the
\* review was confirmed; a step at which the student cancels a question or
\* declines the start, the review or the resubmission prompt persists nothing,
\* so any prior submission stays as it was.
C24_SaveOnlyAfterConfirmedReview ==
    [][ /\ Persists =>
            /\ ReadyToSave
            /\ frame'.declined = "none"
            /\ calls' = Append(calls, [assignment_id |-> frame.assignment_id,
                                       student_id |-> frame.student_id,
                                       answers |-> frame.answers])
        /\ Declines => UNCHANGED <<submissions, answers, seq_submissions, calls>>
      ]_vars

\* C24 witness: a confirmed resubmission with a skipped answer was saved, and a
\* later resubmission of it was declined at the review.
C24_Witness ==
    /\ frame.name = "submit_assignment"
    /\ frame.pc = "returned"
    /\ frame.declined = "review"
    /\ \E s \in submissions :
          /\ s.student_id = frame.student_id
          /\ s.assignment_id = frame.assignment_id
          /\ s.submission_count = 2
    /\ \E k \in DOMAIN calls : \E key \in DOMAIN calls[k].answers :
          calls[k].answers[key] = <<>>

----------------------------------------------------------------------------
(* Claim about the menu loop (checked under SpecMenu) *)

\* the loop has ended, by break or by an exception passing through it
LoopEnded == frame.name = "run_menu_loop" /\ frame.pc = "returned"

\* C28: the menu loop ends exactly when the selected option is the
\* last-numbered one (Logout) or the executed option returned "logout"; any
\* other valid option, one whose handler raises included, is run and the
\* menu is shown again.
C28_LoopEndsOnlyAtLogout ==
    LoopEnded =>
        \/ frame.choice = Str(NumberOfOptions(frame.role))
        \/ frame.result = "logout"

====
